---- MODULE Spec2Model ----
(***************************************************************************)
(* Model of rs-identify (src/src/main.rs): the datasource detection run.   *)
(* Strings whose characters matter (DMI field contents) are sequences of   *)
(* one-character strings; datasource names are compared only for equality  *)
(* and are plain strings.  Option<T> is a sequence of length 0 or 1.       *)
(***************************************************************************)
EXTENDS Integers, Sequences, FiniteSets, TLC

\* ------------------------------------------------------------------ bounds
\* Longest datasource_list a configuration source defines in the detection layouts.
MaxLen == 2
\* Largest number of DMI and seed files present in a detection layout.
MaxFiles == 2
\* Largest number of fragments in etc/cloud/cloud.cfg.d in the resolution layouts.
MaxFragments == 2
\* Longest datasource_list a configuration source defines in the resolution layouts.
MaxCfgLen == 1

\* ------------------------------------------------------------------ Option
None == <<>>
Some(v) == <<v>>

\* ------------------------------------------------------------------ strings
WhiteSpace == {" ", "\n", "\t"}

RECURSIVE TrimStart(_)
TrimStart(s) ==
    IF s # <<>> /\ Head(s) \in WhiteSpace THEN TrimStart(Tail(s)) ELSE s

RECURSIVE TrimEnd(_)
TrimEnd(s) ==
    IF s # <<>> /\ s[Len(s)] \in WhiteSpace
    THEN TrimEnd(SubSeq(s, 1, Len(s) - 1))
    ELSE s

\* str::trim
Trim(s) == TrimEnd(TrimStart(s))

UpperCase == <<"A","B","C","D","E","F","G","H","I","J","K","L","M","N","O","P","Q","R","S","T","U","V","W","X","Y","Z">>
LowerCase == <<"a","b","c","d","e","f","g","h","i","j","k","l","m","n","o","p","q","r","s","t","u","v","w","x","y","z">>

LowerChar(c) ==
    IF \E i \in DOMAIN UpperCase : UpperCase[i] = c
    THEN LowerCase[CHOOSE i \in DOMAIN UpperCase : UpperCase[i] = c]
    ELSE c

\* str::to_ascii_lowercase
to_ascii_lowercase(s) == [i \in DOMAIN s |-> LowerChar(s[i])]

\* str::starts_with
starts_with(s, prefix) ==
    Len(s) >= Len(prefix) /\ SubSeq(s, 1, Len(prefix)) = prefix

\* Vec::contains
contains(list, x) == \E i \in DOMAIN list : list[i] = x

\* ------------------------------------------------------------------ literals
ALIYUN_NAME == <<"A","l","i","b","a","b","a"," ","C","l","o","u","d"," ","E","C","S">>
AZURE_TAG == <<"7","7","8","3","-","7","0","8","4","-","3","2","6","5","-","9","0","8","5","-","8","2","6","9","-","3","2","8","6","-","7","7">>
EXOSCALE_NAME == <<"E","x","o","s","c","a","l","e">>
GCE_NAME == <<"G","o","o","g","l","e"," ","C","o","m","p","u","t","e"," ","E","n","g","i","n","e">>
GCE_SERIAL_PREFIX == <<"G","o","o","g","l","e","C","l","o","u","d">>
ORACLE_TAG == <<"O","r","a","c","l","e","C","l","o","u","d",".","c","o","m">>
EC2_PREFIX == <<"e","c","2">>

DEFAULT_LIST == <<"AliYun", "Azure", "ConfigDrive", "Ec2", "Exoscale", "GCE", "NoCloud", "Oracle">>

DmiFields == {"chassis_asset_tag", "product_name", "product_serial", "product_uuid"}

SEED_DIR == "var/lib/cloud/seed"
WRITABLE == "writable/system-data"

\* ------------------------------------------------------------------ state
VARIABLES
    files_dmi,      \* sys/class/dmi/id/<field>: None (unreadable) or Some(content)
    files_seed,     \* the seed paths that exist under the root, as component tuples
    cloud_cfg,      \* etc/cloud/cloud.cfg as a configuration source
    cloud_cfg_d,    \* etc/cloud/cloud.cfg.d: None (no directory) or Some(name -> source)
    dmi_values,     \* RsIdentify.dmi_values
    dmi_reads,      \* per field, the number of read_to_string calls made so far
    dmi_returned,   \* per field, the values get_dmi_field has returned so far, in call order
    dscheck_calls,  \* the dscheck_* functions invoked so far, in order
    pc,             \* position of the run inside identify()
    input_datasource_list,
    output_datasource_list,
    idx,            \* position of the filter iterator in input_datasource_list
    cfg_out,        \* the argument handed to write_cfg_out: None or Some(list)
    env_changes     \* how many times a DMI file was changed from outside during the run

vars == <<files_dmi, files_seed, cloud_cfg, cloud_cfg_d, dmi_values, dmi_reads,
          dmi_returned, dscheck_calls, pc, input_datasource_list,
          output_datasource_list, idx, cfg_out, env_changes>>

envVars == <<files_dmi, files_seed, cloud_cfg, cloud_cfg_d, env_changes>>

\* The mutable part of RsIdentify together with its observation history.
Self == [dmi_values |-> dmi_values, dmi_reads |-> dmi_reads, dmi_returned |-> dmi_returned]

\* ------------------------------------------------------------------ DMI caching
\* get_dmi_field without the contains_key test: every call reads the file again.
get_dmi_field_Uncached(self, field_name) ==
    LET value == IF files_dmi[field_name] = None
                 THEN None
                 ELSE Some(Trim(files_dmi[field_name][1]))
        s1 == [self EXCEPT
                 !.dmi_values = (field_name :> value) @@ self.dmi_values,
                 !.dmi_reads[field_name] = @ + 1]
        ret == s1.dmi_values[field_name]
    IN  [self |-> [s1 EXCEPT !.dmi_returned[field_name] = Append(@, ret)],
         ret |-> ret]

get_dmi_field(self, field_name) ==
    LET value == IF files_dmi[field_name] = None
                 THEN None
                 ELSE Some(Trim(files_dmi[field_name][1]))
        s1 == IF field_name \notin DOMAIN self.dmi_values
              THEN [self EXCEPT
                      !.dmi_values = (field_name :> value) @@ self.dmi_values,
                      !.dmi_reads[field_name] = @ + 1]
              ELSE self
        ret == s1.dmi_values[field_name]
    IN  [self |-> [s1 EXCEPT !.dmi_returned[field_name] = Append(@, ret)],
         ret |-> ret]

dmi_chassis_asset_tag(self) == get_dmi_field(self, "chassis_asset_tag")
dmi_product_name(self) == get_dmi_field(self, "product_name")
dmi_product_serial(self) == get_dmi_field(self, "product_serial")
dmi_product_uuid(self) == get_dmi_field(self, "product_uuid")

\* ------------------------------------------------------------------ helpers
seed_path_exists(prefix, seed_type, filename) ==
    LET seed_path == (IF prefix = None THEN <<>> ELSE <<prefix[1]>>)
                     \o <<SEED_DIR, seed_type, filename>>
    IN  seed_path \in files_seed

\* ------------------------------------------------------------------ datasource checks
dscheck_AliYun(self) ==
    LET r == dmi_product_name(self)
    IN  [self |-> r.self, ret |-> (r.ret = Some(ALIYUN_NAME))]

dscheck_Azure(self) ==
    IF seed_path_exists(None, "azure", "ovf-env.xml")
    THEN [self |-> self, ret |-> TRUE]
    ELSE LET r == dmi_chassis_asset_tag(self)
         IN  [self |-> r.self, ret |-> (r.ret = Some(AZURE_TAG))]

dscheck_ConfigDrive(self) ==
    [self |-> self,
     ret |-> seed_path_exists(None, "config_drive", "openstack/latest/meta_data.json")]

\* dscheck_Ec2 without the two prefix tests: absent fields compare equal.
dscheck_Ec2_NoPrefix(self) ==
    LET r1 == dmi_product_serial(self)
        serial == IF r1.ret = None THEN None ELSE Some(to_ascii_lowercase(r1.ret[1]))
        r2 == dmi_product_uuid(r1.self)
        uuid == IF r2.ret = None THEN None ELSE Some(to_ascii_lowercase(r2.ret[1]))
    IN  [self |-> r2.self, ret |-> (serial = uuid)]

\* dscheck_Ec2 without the final `serial == uuid`.
dscheck_Ec2_NoEquality(self) ==
    LET r1 == dmi_product_serial(self)
        serial == IF r1.ret = None THEN None ELSE Some(to_ascii_lowercase(r1.ret[1]))
        r2 == dmi_product_uuid(r1.self)
        uuid == IF r2.ret = None THEN None ELSE Some(to_ascii_lowercase(r2.ret[1]))
    IN  [self |-> r2.self,
         ret |-> /\ (IF serial = None THEN FALSE ELSE starts_with(serial[1], EC2_PREFIX))
                 /\ (IF uuid = None THEN FALSE ELSE starts_with(uuid[1], EC2_PREFIX))]

dscheck_Ec2(self) ==
    LET r1 == dmi_product_serial(self)
        serial == IF r1.ret = None THEN None ELSE Some(to_ascii_lowercase(r1.ret[1]))
        r2 == dmi_product_uuid(r1.self)
        uuid == IF r2.ret = None THEN None ELSE Some(to_ascii_lowercase(r2.ret[1]))
    IN  [self |-> r2.self,
         ret |-> /\ (IF serial = None THEN FALSE ELSE starts_with(serial[1], EC2_PREFIX))
                 /\ (IF uuid = None THEN FALSE ELSE starts_with(uuid[1], EC2_PREFIX))
                 /\ serial = uuid]

dscheck_Exoscale(self) ==
    LET r == dmi_product_name(self)
    IN  [self |-> r.self, ret |-> (r.ret = Some(EXOSCALE_NAME))]

dscheck_GCE(self) ==
    LET r1 == dmi_product_name(self)
    IN  IF r1.ret = Some(GCE_NAME)
        THEN [self |-> r1.self, ret |-> TRUE]
        ELSE LET r2 == dmi_product_serial(r1.self)
             IN  [self |-> r2.self,
                  ret |-> IF r2.ret = None
                          THEN FALSE
                          ELSE starts_with(r2.ret[1], GCE_SERIAL_PREFIX)]

NoCloudSeedTypes == <<"nocloud", "nocloud-net">>

\* dscheck_NoCloud whose second test looks for meta-data under the plain prefix.
RECURSIVE NoCloudFrom_MixedPrefix(_)
NoCloudFrom_MixedPrefix(i) ==
    IF i > Len(NoCloudSeedTypes) THEN FALSE
    ELSE LET seed_type == NoCloudSeedTypes[i]
         IN  IF seed_path_exists(None, seed_type, "user-data")
                /\ seed_path_exists(None, seed_type, "meta-data")
             THEN TRUE
             ELSE IF seed_path_exists(Some(WRITABLE), seed_type, "user-data")
                     /\ seed_path_exists(None, seed_type, "meta-data")
                  THEN TRUE
                  ELSE NoCloudFrom_MixedPrefix(i + 1)

RECURSIVE NoCloudFrom(_)
NoCloudFrom(i) ==
    IF i > Len(NoCloudSeedTypes) THEN FALSE
    ELSE LET seed_type == NoCloudSeedTypes[i]
         IN  IF seed_path_exists(None, seed_type, "user-data")
                /\ seed_path_exists(None, seed_type, "meta-data")
             THEN TRUE
             ELSE IF seed_path_exists(Some(WRITABLE), seed_type, "user-data")
                     /\ seed_path_exists(Some(WRITABLE), seed_type, "meta-data")
                  THEN TRUE
                  ELSE NoCloudFrom(i + 1)

dscheck_NoCloud(self) == [self |-> self, ret |-> NoCloudFrom(1)]

dscheck_Oracle(self) ==
    LET r == dmi_chassis_asset_tag(self)
    IN  [self |-> r.self, ret |-> (r.ret = Some(ORACLE_TAG))]

\* ------------------------------------------------------------------ configuration
\* A configuration source as get_datasource_list_from_path sees it:
\*   open            File::open succeeded
\*   parsed          serde_yaml::from_reader produced a Mapping
\*   datasource_list config.get("datasource_list"): None or Some(value), where a
\*                   value is [is_seq, elems] and an element is [is_str, s].
get_datasource_list_from_path(source) ==
    IF ~source.open THEN [panic |-> FALSE, ret |-> None]
    ELSE IF ~source.parsed THEN [panic |-> FALSE, ret |-> None]
    ELSE IF source.datasource_list = None THEN [panic |-> FALSE, ret |-> None]
    ELSE LET datasource_list == source.datasource_list[1]
         IN  IF ~datasource_list.is_seq
             THEN [panic |-> TRUE, ret |-> None]
             ELSE [panic |-> FALSE,
                   ret |-> Some([i \in DOMAIN SelectSeq(datasource_list.elems,
                                                       LAMBDA value : value.is_str)
                                 |-> SelectSeq(datasource_list.elems,
                                               LAMBDA value : value.is_str)[i].s])]

\* Ord for the fragment paths: they differ in the file name only, compared bytewise.
RECURSIVE PathLess(_, _)
PathLess(a, b) ==
    IF b = <<>> THEN FALSE
    ELSE IF a = <<>> THEN TRUE
    ELSE IF Head(a) # Head(b) THEN Head(a) < Head(b)
    ELSE PathLess(Tail(a), Tail(b))

RECURSIVE Insert(_, _)
Insert(sorted, p) ==
    IF sorted = <<>> THEN <<p>>
    ELSE IF PathLess(p, Head(sorted)) THEN <<p>> \o sorted
    ELSE <<Head(sorted)>> \o Insert(Tail(sorted), p)

\* cloud_d_paths left in the order read_dir gave.
sort_Missing(paths) == paths

\* Vec::sort
RECURSIVE sort(_)
sort(paths) ==
    IF paths = <<>> THEN <<>>
    ELSE Insert(sort(SubSeq(paths, 1, Len(paths) - 1)), paths[Len(paths)])

\* The loop of get_datasource_list over cloud_d_paths[i..], carrying `list`.
RECURSIVE FoldFragments(_, _, _)
FoldFragments(cloud_d_paths, i, list) ==
    IF i > Len(cloud_d_paths) THEN [panic |-> FALSE, ret |-> list]
    ELSE LET r == get_datasource_list_from_path(cloud_cfg_d[1][cloud_d_paths[i]])
         IN  IF r.panic THEN [panic |-> TRUE, ret |-> None]
             ELSE FoldFragments(cloud_d_paths, i + 1,
                                IF r.ret # None THEN r.ret ELSE list)

\* read_dir_order: the order in which read_dir listed the fragment directory.
get_datasource_list(read_dir_order) ==
    LET cloud_d_paths == sort(read_dir_order)
        base == get_datasource_list_from_path(cloud_cfg)
    IN  IF base.panic THEN [panic |-> TRUE, ret |-> <<>>]
        ELSE LET r == FoldFragments(cloud_d_paths, 1, base.ret)
             IN  IF r.panic THEN [panic |-> TRUE, ret |-> <<>>]
                 ELSE [panic |-> FALSE,
                       ret |-> IF r.ret = None THEN DEFAULT_LIST ELSE r.ret[1]]

\* The listings read_dir can produce: none when the directory is missing,
\* otherwise every order of its entries.
ReadDirOrders ==
    IF cloud_cfg_d = None THEN {<<>>}
    ELSE LET names == DOMAIN cloud_cfg_d[1]
         IN  {o \in [1..Cardinality(names) -> names] :
                \A i, j \in DOMAIN o : i # j => o[i] # o[j]}

\* ------------------------------------------------------------------ detection
\* The match with a catch-all arm that accepts the candidate.
dscheck_UnknownMatches(self, candidate_datasource) ==
    CASE candidate_datasource = "AliYun" -> dscheck_AliYun(self)
      [] candidate_datasource = "Azure" -> dscheck_Azure(self)
      [] candidate_datasource = "ConfigDrive" -> dscheck_ConfigDrive(self)
      [] candidate_datasource = "Ec2" -> dscheck_Ec2(self)
      [] candidate_datasource = "Exoscale" -> dscheck_Exoscale(self)
      [] candidate_datasource = "GCE" -> dscheck_GCE(self)
      [] candidate_datasource = "NoCloud" -> dscheck_NoCloud(self)
      [] candidate_datasource = "Oracle" -> dscheck_Oracle(self)
      [] OTHER -> [self |-> self, ret |-> TRUE]

\* The match of find_datasources_from_list's filter closure.
dscheck(self, candidate_datasource) ==
    CASE candidate_datasource = "AliYun" -> dscheck_AliYun(self)
      [] candidate_datasource = "Azure" -> dscheck_Azure(self)
      [] candidate_datasource = "ConfigDrive" -> dscheck_ConfigDrive(self)
      [] candidate_datasource = "Ec2" -> dscheck_Ec2(self)
      [] candidate_datasource = "Exoscale" -> dscheck_Exoscale(self)
      [] candidate_datasource = "GCE" -> dscheck_GCE(self)
      [] candidate_datasource = "NoCloud" -> dscheck_NoCloud(self)
      [] candidate_datasource = "Oracle" -> dscheck_Oracle(self)
      [] OTHER -> [self |-> self, ret |-> FALSE]

DscheckNames == {DEFAULT_LIST[i] : i \in DOMAIN DEFAULT_LIST}

\* ------------------------------------------------------------------ actions
\* identify(), line 265: resolve the candidate list (or panic while doing so).
GetDatasourceList ==
    /\ pc = "start"
    /\ \E read_dir_order \in ReadDirOrders :
         LET r == get_datasource_list(read_dir_order)
         IN  /\ pc' = IF r.panic THEN "panicked" ELSE "resolved"
             /\ input_datasource_list' = r.ret
    /\ UNCHANGED <<envVars, dmi_values, dmi_reads, dmi_returned, dscheck_calls,
                   output_datasource_list, idx, cfg_out>>

\* identify() sending a single candidate through the filter as well.
ShortCircuit_Filtering ==
    /\ pc = "resolved"
    /\ Len(input_datasource_list) = 1
    /\ LET candidate_datasource == input_datasource_list[1]
           r == dscheck(Self, candidate_datasource)
       IN  /\ dmi_values' = r.self.dmi_values
           /\ dmi_reads' = r.self.dmi_reads
           /\ dmi_returned' = r.self.dmi_returned
           /\ dscheck_calls' = IF candidate_datasource \in DscheckNames
                               THEN Append(dscheck_calls, candidate_datasource)
                               ELSE dscheck_calls
           /\ output_datasource_list' = IF r.ret THEN input_datasource_list ELSE <<>>
    /\ pc' = "collected"
    /\ UNCHANGED <<envVars, input_datasource_list, idx, cfg_out>>

\* identify(), lines 267-268: a single candidate is taken as it is.
ShortCircuit ==
    /\ pc = "resolved"
    /\ Len(input_datasource_list) = 1
    /\ output_datasource_list' = input_datasource_list
    /\ pc' = "collected"
    /\ UNCHANGED <<envVars, dmi_values, dmi_reads, dmi_returned, dscheck_calls,
                   input_datasource_list, idx, cfg_out>>

\* The filter dropping a candidate that was retained before.
FilterCandidate_Dedup ==
    /\ pc = "resolved"
    /\ Len(input_datasource_list) # 1
    /\ idx <= Len(input_datasource_list)
    /\ LET candidate_datasource == input_datasource_list[idx]
           r == dscheck(Self, candidate_datasource)
       IN  /\ dmi_values' = r.self.dmi_values
           /\ dmi_reads' = r.self.dmi_reads
           /\ dmi_returned' = r.self.dmi_returned
           /\ dscheck_calls' = IF candidate_datasource \in DscheckNames
                               THEN Append(dscheck_calls, candidate_datasource)
                               ELSE dscheck_calls
           /\ output_datasource_list' =
                IF r.ret /\ ~contains(output_datasource_list, candidate_datasource)
                THEN Append(output_datasource_list, candidate_datasource)
                ELSE output_datasource_list
    /\ idx' = idx + 1
    /\ UNCHANGED <<envVars, pc, input_datasource_list, cfg_out>>

\* find_datasources_from_list: the filter closure applied to the next candidate.
FilterCandidate ==
    /\ pc = "resolved"
    /\ Len(input_datasource_list) # 1
    /\ idx <= Len(input_datasource_list)
    /\ LET candidate_datasource == input_datasource_list[idx]
           r == dscheck(Self, candidate_datasource)
       IN  /\ dmi_values' = r.self.dmi_values
           /\ dmi_reads' = r.self.dmi_reads
           /\ dmi_returned' = r.self.dmi_returned
           /\ dscheck_calls' = IF candidate_datasource \in DscheckNames
                               THEN Append(dscheck_calls, candidate_datasource)
                               ELSE dscheck_calls
           /\ output_datasource_list' = IF r.ret
                                        THEN Append(output_datasource_list, candidate_datasource)
                                        ELSE output_datasource_list
    /\ idx' = idx + 1
    /\ UNCHANGED <<envVars, pc, input_datasource_list, cfg_out>>

\* find_datasources_from_list: the iterator is exhausted, collect() returns.
FilterCollect ==
    /\ pc = "resolved"
    /\ Len(input_datasource_list) # 1
    /\ idx > Len(input_datasource_list)
    /\ pc' = "collected"
    /\ UNCHANGED <<envVars, dmi_values, dmi_reads, dmi_returned, dscheck_calls,
                   input_datasource_list, output_datasource_list, idx, cfg_out>>

\* identify() pushing the sentinel without looking for it first.
WriteCfgOut_AlwaysPush ==
    /\ pc = "collected"
    /\ output_datasource_list' = Append(output_datasource_list, "None")
    /\ cfg_out' = Some(Append(output_datasource_list, "None"))
    /\ \E outcome \in {"done", "write_panicked", "exited"} : pc' = outcome
    /\ UNCHANGED <<envVars, dmi_values, dmi_reads, dmi_returned, dscheck_calls,
                   input_datasource_list, idx>>

\* identify(), lines 273-278: add the sentinel and hand the list to write_cfg_out,
\* which writes it, panics (directory or file creation failed) or exits (write failed).
WriteCfgOut ==
    /\ pc = "collected"
    /\ LET datasource_list == IF ~contains(output_datasource_list, "None")
                              THEN Append(output_datasource_list, "None")
                              ELSE output_datasource_list
       IN  /\ output_datasource_list' = datasource_list
           /\ cfg_out' = Some(datasource_list)
    /\ \E outcome \in {"done", "write_panicked", "exited"} : pc' = outcome
    /\ UNCHANGED <<envVars, dmi_values, dmi_reads, dmi_returned, dscheck_calls,
                   input_datasource_list, idx>>

Next ==
    \/ GetDatasourceList
    \/ ShortCircuit
    \/ FilterCandidate
    \/ FilterCollect
    \/ WriteCfgOut

\* ------------------------------------------------------------------ initial states
NewLine == <<"\n">>

\* Contents a DMI file can have in the layouts explored (sysfs ends them with a newline).
DmiContents(field_name) ==
    CASE field_name = "product_name" ->
           {ALIYUN_NAME \o NewLine, <<" ">> \o EXOSCALE_NAME, GCE_NAME \o NewLine}
      [] field_name = "chassis_asset_tag" ->
           {AZURE_TAG \o NewLine, ORACLE_TAG \o NewLine}
      [] field_name = "product_serial" ->
           {<<"E","C","2","a","b","c","1","2","3","\n">>,
            GCE_SERIAL_PREFIX \o <<"-","1","\n">>}
      [] field_name = "product_uuid" ->
           {<<"e","c","2","A","B","C","1","2","3","\n">>,
            <<"e","c","2","a","b","c","1","2","4","\n">>,
            to_ascii_lowercase(GCE_SERIAL_PREFIX) \o <<"-","1","\n">>}

DmiLayouts ==
    {f \in [DmiFields -> {None} \cup {Some(c) : c \in UNION {DmiContents(d) : d \in DmiFields}}] :
        \A d \in DmiFields : f[d] # None => f[d][1] \in DmiContents(d)}

SeedPaths ==
    {<<SEED_DIR, "azure", "ovf-env.xml">>,
     <<SEED_DIR, "config_drive", "openstack/latest/meta_data.json">>}
    \cup {<<SEED_DIR, t, n>> : t \in {"nocloud", "nocloud-net"}, n \in {"user-data", "meta-data"}}
    \cup {<<WRITABLE, SEED_DIR, t, n>> : t \in {"nocloud", "nocloud-net"},
                                         n \in {"user-data", "meta-data"}}

DmiCount(f) == Cardinality({d \in DmiFields : f[d] # None})

\* Sequences over S of length at most n.
SeqsUpTo(S, n) == UNION {[1..k -> S] : k \in 0..n}

StrElem(name) == [is_str |-> TRUE, s |-> name]
NonStrElem == [is_str |-> FALSE, s |-> ""]

AbsentSource == [open |-> FALSE, parsed |-> FALSE, datasource_list |-> None]
InvalidSource == [open |-> TRUE, parsed |-> FALSE, datasource_list |-> None]
NoKeySource == [open |-> TRUE, parsed |-> TRUE, datasource_list |-> None]
ScalarSource ==
    [open |-> TRUE, parsed |-> TRUE,
     datasource_list |-> Some([is_seq |-> FALSE, elems |-> <<>>])]
SeqSource(elems) ==
    [open |-> TRUE, parsed |-> TRUE,
     datasource_list |-> Some([is_seq |-> TRUE, elems |-> elems])]

\* Names a configured list is made of: recognized ones, an unrecognized one, the sentinel.
CandidateNames == {"AliYun", "Azure", "Ec2", "GCE", "NoCloud", "Foo", "None"}

InitRun ==
    /\ dmi_values = <<>>
    /\ dmi_reads = [d \in DmiFields |-> 0]
    /\ dmi_returned = [d \in DmiFields |-> <<>>]
    /\ dscheck_calls = <<>>
    /\ pc = "start"
    /\ input_datasource_list = <<>>
    /\ output_datasource_list = <<>>
    /\ idx = 1
    /\ cfg_out = None
    /\ env_changes = 0

\* Detection layouts: any candidate list up to MaxLen from the base file (or the
\* default list), against every layout of at most MaxFiles DMI and seed files.
InitDetect ==
    /\ files_dmi \in {f \in DmiLayouts : DmiCount(f) <= MaxFiles}
    /\ files_seed \in {s \in SUBSET SeedPaths : Cardinality(s) + DmiCount(files_dmi) <= MaxFiles}
    /\ cloud_cfg \in {AbsentSource}
                     \cup {SeqSource([i \in DOMAIN l |-> StrElem(l[i])]) :
                             l \in SeqsUpTo(CandidateNames, MaxLen)}
    /\ cloud_cfg_d = None
    /\ InitRun

FragmentNames == {<<49>>, <<49, 48>>, <<50>>}

CfgSources ==
    {AbsentSource, InvalidSource, NoKeySource, ScalarSource}
    \cup {SeqSource(e) : e \in SeqsUpTo({StrElem("AliYun"), StrElem("GCE"), NonStrElem}, MaxCfgLen)}

\* Resolution layouts: every combination of a base file and up to MaxFragments
\* fragments, on a machine with no platform signal or with the AliYun and GCE ones.
InitResolve ==
    /\ files_dmi \in {[d \in DmiFields |-> None],
                      [d \in DmiFields |->
                         CASE d = "product_name" -> Some(ALIYUN_NAME \o NewLine)
                           [] d = "product_serial" -> Some(GCE_SERIAL_PREFIX \o NewLine)
                           [] OTHER -> None]}
    /\ files_seed = {}
    /\ cloud_cfg \in CfgSources
    /\ cloud_cfg_d \in {None}
         \cup {Some(f) : f \in UNION {[D -> CfgSources] :
                                       D \in {E \in SUBSET FragmentNames :
                                                Cardinality(E) <= MaxFragments}}}
    /\ InitRun

Init == InitDetect \/ InitResolve

Spec == Init /\ [][Next]_vars

\* ------------------------------------------------------------------ changing firmware files
\* Largest number of outside changes to DMI files during one run.
MaxEnvChanges == 2

\* Candidates whose checks share the product_name and product_serial fields.
DmiReaders == {"AliYun", "Ec2", "Exoscale", "GCE"}

\* Something other than this program rewrites, creates or removes a DMI file
\* while the run still has candidates to check.
EnvChangeDmi ==
    /\ \/ pc = "start"
       \/ pc = "resolved" /\ idx <= Len(input_datasource_list)
    /\ env_changes < MaxEnvChanges
    /\ env_changes' = env_changes + 1
    /\ \E d \in DmiFields :
         \E c \in {None} \cup {Some(x) : x \in DmiContents(d)} :
            /\ c # files_dmi[d]
            /\ files_dmi' = [files_dmi EXCEPT ![d] = c]
    /\ UNCHANGED <<files_seed, cloud_cfg, cloud_cfg_d, dmi_values, dmi_reads,
                   dmi_returned, dscheck_calls, pc, input_datasource_list,
                   output_datasource_list, idx, cfg_out>>

InitEnv ==
    /\ files_dmi = [d \in DmiFields |-> None]
    /\ files_seed = {}
    /\ cloud_cfg \in {AbsentSource}
                     \cup {SeqSource([i \in DOMAIN l |-> StrElem(l[i])]) :
                             l \in SeqsUpTo(DmiReaders, MaxLen)}
    /\ cloud_cfg_d = None
    /\ InitRun

NextEnv == Next \/ EnvChangeDmi

SpecEnv == InitEnv /\ [][NextEnv]_vars

\* ------------------------------------------------------------------ what the properties speak of
Sentinel == "None"

RecognizedNames ==
    {"AliYun", "Azure", "ConfigDrive", "Ec2", "Exoscale", "GCE", "NoCloud", "Oracle"}

\* The Detection Result has been handed to write_cfg_out.
Handed == cfg_out # None
Result == cfg_out[1]

\* The Candidate List has been resolved (resolution returned).
Resolved == pc \in {"resolved", "collected", "done", "write_panicked", "exited"}

\* The identity field as the firmware file gives it now.
Field(d) == IF files_dmi[d] = None THEN None ELSE Some(Trim(files_dmi[d][1]))

SameLetter(a, b) ==
    a = b \/ \E i \in DOMAIN UpperCase : {a, b} = {UpperCase[i], LowerCase[i]}

EqualIgnoringCase(a, b) ==
    Len(a) = Len(b) /\ \A i \in DOMAIN a : SameLetter(a[i], b[i])

StartsWithIgnoringCase(a, prefix) ==
    Len(a) >= Len(prefix) /\ \A i \in DOMAIN prefix : SameLetter(a[i], prefix[i])

\* The Ec2 signal for a serial and a uuid given as optional strings.
Ec2Signal(serial, uuid) ==
    /\ serial # None
    /\ uuid # None
    /\ StartsWithIgnoringCase(serial[1], <<"e", "c", "2">>)
    /\ StartsWithIgnoringCase(uuid[1], <<"e", "c", "2">>)
    /\ EqualIgnoringCase(serial[1], uuid[1])

\* The NoCloud signal: one seed type and one prefix with both marker files.
NoCloudSignal ==
    \E t \in {"nocloud", "nocloud-net"} :
       \E prefix \in {<<>>, <<WRITABLE>>} :
          /\ (prefix \o <<SEED_DIR, t, "user-data">>) \in files_seed
          /\ (prefix \o <<SEED_DIR, t, "meta-data">>) \in files_seed

\* The platform signal of a candidate in the current root layout.
Signal(name) ==
    CASE name = "AliYun" -> Field("product_name") = Some(ALIYUN_NAME)
      [] name = "Azure" -> \/ <<SEED_DIR, "azure", "ovf-env.xml">> \in files_seed
                           \/ Field("chassis_asset_tag") = Some(AZURE_TAG)
      [] name = "ConfigDrive" ->
           <<SEED_DIR, "config_drive", "openstack/latest/meta_data.json">> \in files_seed
      [] name = "Ec2" -> Ec2Signal(Field("product_serial"), Field("product_uuid"))
      [] name = "Exoscale" -> Field("product_name") = Some(EXOSCALE_NAME)
      [] name = "GCE" -> \/ Field("product_name") = Some(GCE_NAME)
                         \/ /\ Field("product_serial") # None
                            /\ starts_with(Field("product_serial")[1], GCE_SERIAL_PREFIX)
      [] name = "NoCloud" -> NoCloudSignal
      [] name = "Oracle" -> Field("chassis_asset_tag") = Some(ORACLE_TAG)
      [] OTHER -> FALSE

NoSignal == \A name \in RecognizedNames : ~Signal(name)

NoPredicateEvaluated ==
    /\ dscheck_calls = <<>>
    /\ dmi_values = <<>>
    /\ \A d \in DmiFields : dmi_reads[d] = 0 /\ dmi_returned[d] = <<>>

Count(list, x) == Cardinality({i \in DOMAIN list : list[i] = x})

\* ------------------------------------------------------------------ C1
\* C1 as stated: for every resolved Candidate List of length exactly 1, whatever
\* the single name is (the sentinel included), the Detection Result is that list
\* with the sentinel appended, and no platform predicate is evaluated.
C1_Original ==
    (Handed /\ Len(input_datasource_list) = 1)
        => /\ Result = Append(input_datasource_list, Sentinel)
           /\ NoPredicateEvaluated

\* C1 amended: for every resolved Candidate List of length exactly 1 the Detection
\* Result is that list with the sentinel appended when the single name is not the
\* sentinel, and that list unchanged when it is the sentinel; either way no
\* platform predicate is evaluated.
C1_ShortCircuit ==
    (Handed /\ Len(input_datasource_list) = 1)
        => /\ Result = IF input_datasource_list[1] = Sentinel
                       THEN input_datasource_list
                       ELSE Append(input_datasource_list, Sentinel)
           /\ NoPredicateEvaluated

\* A single Azure candidate on a machine without any Azure signal is accepted.
C1_Witness ==
    /\ Handed
    /\ input_datasource_list = <<"Azure">>
    /\ ~Signal("Azure")
    /\ files_dmi["chassis_asset_tag"] # None
    /\ Result = <<"Azure", "None">>

\* ------------------------------------------------------------------ C2
\* C2: every Detection Result handed to write_cfg_out has the sentinel as its last
\* element and contains the sentinel exactly once.
C2_SentinelLastOnce ==
    Handed => /\ Len(Result) >= 1
              /\ Result[Len(Result)] = Sentinel
              /\ Count(Result, Sentinel) = 1

\* A candidate list naming the sentinel twice has been processed.
C2_Witness ==
    /\ Handed
    /\ input_datasource_list = <<"None", "None">>
    /\ Result = <<"None">>

\* ------------------------------------------------------------------ C3
\* C3 as stated: in every root layout where no platform predicate is true the
\* Detection Result is exactly [sentinel], whatever the configuration is.
C3_Original == (Handed /\ NoSignal) => Result = <<Sentinel>>

\* C3 amended: in every root layout where no platform predicate is true and whose
\* resolved Candidate List is not a single name other than the sentinel, the
\* Detection Result is exactly [sentinel].
C3_NoSignalOnlySentinel ==
    (/\ Handed
     /\ NoSignal
     /\ ~(Len(input_datasource_list) = 1 /\ input_datasource_list[1] # Sentinel))
        => Result = <<Sentinel>>

\* A machine with firmware files that match nothing, checked against the default list.
C3_Witness ==
    /\ Handed
    /\ NoSignal
    /\ input_datasource_list = DEFAULT_LIST
    /\ \E d \in DmiFields : files_dmi[d] # None
    /\ Result = <<"None">>

\* ------------------------------------------------------------------ C4
Yields(source) ==
    /\ source.open
    /\ source.parsed
    /\ source.datasource_list # None
    /\ source.datasource_list[1].is_seq

RECURSIVE Strings(_)
Strings(elems) ==
    IF elems = <<>> THEN <<>>
    ELSE IF Head(elems).is_str THEN <<Head(elems).s>> \o Strings(Tail(elems))
    ELSE Strings(Tail(elems))

ListOf(source) == Strings(source.datasource_list[1].elems)

Fragments == IF cloud_cfg_d = None THEN {} ELSE DOMAIN cloud_cfg_d[1]

YieldingFragments == {n \in Fragments : Yields(cloud_cfg_d[1][n])}

\* The list of the last yielding source, the base file coming first and the
\* fragments after it by ascending file name; the built-in list when none yields.
LastYieldingList ==
    IF YieldingFragments # {}
    THEN ListOf(cloud_cfg_d[1][CHOOSE n \in YieldingFragments :
                                  \A m \in YieldingFragments \ {n} : PathLess(m, n)])
    ELSE IF Yields(cloud_cfg) THEN ListOf(cloud_cfg)
    ELSE <<"AliYun", "Azure", "ConfigDrive", "Ec2", "Exoscale", "GCE", "NoCloud", "Oracle">>

\* C4: get_datasource_list returns exactly the list of the last source that
\* yields one (base file first, then fragments in ascending file name order),
\* and the built-in default list exactly when no source yields a list.
C4_LastWriterWins == Resolved => input_datasource_list = LastYieldingList

\* The base file defines [AliYun], a later fragment defines [GCE], an earlier
\* one yields nothing: the resolved list is [GCE].
C4_Witness ==
    /\ pc = "resolved"
    /\ Yields(cloud_cfg) /\ ListOf(cloud_cfg) = <<"AliYun">>
    /\ cloud_cfg_d # None
    /\ Fragments = {<<49, 48>>, <<50>>}
    /\ cloud_cfg_d[1][<<49, 48>>] = SeqSource(<<StrElem("GCE")>>)
    /\ cloud_cfg_d[1][<<50>>] = NoKeySource
    /\ input_datasource_list = <<"GCE">>

\* ------------------------------------------------------------------ C5
MappingWithoutList(source) ==
    /\ source.open
    /\ source.parsed
    /\ \/ source.datasource_list = None
       \/ ~source.datasource_list[1].is_seq

\* C5: a source that parses as a mapping but lacks datasource_list, or binds it to
\* a value that is not a sequence, yields no result; resolution goes on and ends
\* with the result it would have without that source.
C5_MalformedIsAbsent ==
    (/\ pc # "start"
     /\ \/ MappingWithoutList(cloud_cfg)
        \/ \E n \in Fragments : MappingWithoutList(cloud_cfg_d[1][n]))
        => /\ Resolved
           /\ input_datasource_list = LastYieldingList

\* ------------------------------------------------------------------ C6
\* C6 as stated: a candidate outside the recognized set never causes an error and
\* never appears in the Detection Result.
C6_Original ==
    Handed => \A i \in DOMAIN input_datasource_list :
                 input_datasource_list[i] \notin RecognizedNames
                    => ~contains(Result, input_datasource_list[i])

\* C6 amended: for every resolved Candidate List whose length is not 1, a name
\* outside the recognized set never causes an error and is never retained: the
\* Detection Result holds recognized names only, followed by the appended sentinel.
C6_UnrecognizedDropped ==
    (Handed /\ Len(input_datasource_list) # 1)
        => /\ \A i \in 1..(Len(Result) - 1) : Result[i] \in RecognizedNames
           /\ Result[Len(Result)] = Sentinel

\* An unrecognized name listed before a candidate whose signal is present.
C6_Witness ==
    /\ Handed
    /\ input_datasource_list = <<"Foo", "Azure">>
    /\ Result = <<"Azure", "None">>

\* ------------------------------------------------------------------ C7
\* C7: within one run every get_dmi_field(f) after the first returns what the
\* first returned and reads storage no further, even when the file changes in
\* between; an entry of dmi_values is written once and never changed or removed.
C7_ReadOnce ==
    /\ [](\A d \in DmiFields :
            /\ dmi_reads[d] <= 1
            /\ \A i \in DOMAIN dmi_returned[d] : dmi_returned[d][i] = dmi_returned[d][1]
            /\ (dmi_returned[d] # <<>>)
                  => (d \in DOMAIN dmi_values /\ dmi_values[d] = dmi_returned[d][1]))
    /\ [][\A d \in DOMAIN dmi_values :
            d \in DOMAIN dmi_values' /\ dmi_values'[d] = dmi_values[d]]_vars

\* product_name was created with the AliYun name and read for AliYun, then the
\* file changed to the Exoscale name, then Exoscale asked for the field again
\* (the second change fell between the two calls: the cache holds the first
\* content and no change is made once the last candidate is checked).
C7_Witness ==
    /\ pc = "collected"
    /\ input_datasource_list = <<"AliYun", "Exoscale">>
    /\ env_changes = 2
    /\ Len(dmi_returned["product_name"]) = 2
    /\ dmi_values["product_name"] = Some(ALIYUN_NAME)
    /\ Field("product_name") = Some(EXOSCALE_NAME)
    /\ output_datasource_list = <<"AliYun">>

\* ------------------------------------------------------------------ C8
Snapshot(d) == IF d \in DOMAIN dmi_values THEN dmi_values[d] ELSE None

Chars_EC2abc123 == <<"E","C","2","a","b","c","1","2","3">>
Chars_ec2ABC123 == <<"e","c","2","A","B","C","1","2","3">>
Chars_ec2abc124 == <<"e","c","2","a","b","c","1","2","4">>

\* C8: the Ec2 predicate is true exactly when product_serial and product_uuid are
\* both present, both start with "ec2" ignoring case, and are equal ignoring
\* case; serial EC2abc123 with uuid ec2ABC123 gives true, with ec2abc124 false.
C8_Ec2Predicate ==
    (/\ pc = "collected"
     /\ Len(input_datasource_list) # 1
     /\ contains(input_datasource_list, "Ec2"))
        => /\ contains(output_datasource_list, "Ec2")
                <=> Ec2Signal(Snapshot("product_serial"), Snapshot("product_uuid"))
           /\ (Snapshot("product_serial") = None \/ Snapshot("product_uuid") = None)
                => ~contains(output_datasource_list, "Ec2")
           /\ (/\ Snapshot("product_serial") = Some(Chars_EC2abc123)
               /\ Snapshot("product_uuid") = Some(Chars_ec2ABC123))
                => contains(output_datasource_list, "Ec2")
           /\ (/\ Snapshot("product_serial") = Some(Chars_EC2abc123)
               /\ Snapshot("product_uuid") = Some(Chars_ec2abc124))
                => ~contains(output_datasource_list, "Ec2")

\* The serial and the uuid differ in case only and Ec2 was retained.
C8_Witness ==
    /\ pc = "collected"
    /\ input_datasource_list = DEFAULT_LIST
    /\ Snapshot("product_serial") = Some(Chars_EC2abc123)
    /\ Snapshot("product_uuid") = Some(Chars_ec2ABC123)
    /\ output_datasource_list = <<"Ec2">>

\* ------------------------------------------------------------------ C9
\* C9: for every Candidate List whose length is not 1, the Detection Result
\* without its trailing sentinel is exactly the subsequence of the candidates
\* whose platform predicate is true, in order and with duplicates kept.
C9_OrderedFilter ==
    (Handed /\ Len(input_datasource_list) # 1)
        => /\ Result[Len(Result)] = Sentinel
           /\ SubSeq(Result, 1, Len(Result) - 1)
                = SelectSeq(input_datasource_list, Signal)

\* Candidates [GCE, AliYun] with both signals present keep their order.
C9_Witness ==
    /\ Handed
    /\ input_datasource_list = <<"GCE", "AliYun">>
    /\ Signal("GCE") /\ Signal("AliYun")
    /\ Result = <<"GCE", "AliYun", "None">>

\* ------------------------------------------------------------------ C10
\* C10: the NoCloud predicate is true exactly when one seed type and one prefix
\* have both user-data and meta-data; markers split over seed types or prefixes
\* give false, both at var/lib/cloud/seed/nocloud-net alone give true.
C10_NoCloudPredicate ==
    (/\ pc = "collected"
     /\ Len(input_datasource_list) # 1
     /\ contains(input_datasource_list, "NoCloud"))
        => /\ contains(output_datasource_list, "NoCloud") <=> NoCloudSignal
           /\ files_seed = {<<SEED_DIR, "nocloud-net", "user-data">>,
                            <<SEED_DIR, "nocloud-net", "meta-data">>}
                => contains(output_datasource_list, "NoCloud")

\* Only the two nocloud-net markers under the plain prefix exist.
C10_Witness ==
    /\ pc = "collected"
    /\ input_datasource_list = DEFAULT_LIST
    /\ files_seed = {<<SEED_DIR, "nocloud-net", "user-data">>,
                     <<SEED_DIR, "nocloud-net", "meta-data">>}
    /\ output_datasource_list = <<"NoCloud">>

====
